---------------------------- MODULE Spec2Model ----------------------------
(***************************************************************************)
(* A model of analyze_alb_config.py: the ALBConfigAnalyzer class (a JSON   *)
(* document of accounts -> regions -> load balancers, and the read-only    *)
(* report methods over it) and the command-line driver main(); and of two  *)
(* classes of the core package: ResourceChecker (a run of its four steps   *)
(* against the AWS API) and InteractiveMenu (its menu loop over the lines  *)
(* typed at the terminal).                                                 *)
(*                                                                         *)
(* Python values are modelled as follows.  A dict is a function whose      *)
(* domain is the set of keys that are present, so d.get(k, default) and    *)
(* d[k] (KeyError when absent) are told apart.  A list is a sequence.  A   *)
(* load balancer's name is a sequence of one-character strings, so that    *)
(* str.lower() and the substring test "in" are computed; every other       *)
(* string is an atom.  A method's result is a record [status, value]: the  *)
(* status is "ok" or the name of the exception that ended the call, the    *)
(* value is what the method printed or wrote, as a structure.              *)
(***************************************************************************)
EXTENDS Integers, Sequences, FiniteSets, TLC

VARIABLES
    data,        \* self.data: the value json.load returned
    scan_modes,  \* self.scan_modes: account_id -> scan_mode
    args,        \* the parsed command line of a run of main()
    pc,          \* where the analyzer, or the run in progress, stands
    trace,       \* the methods the run has called so far, in order
    emitted,     \* the sections (banners, menus) the run has printed so far
    out,         \* the last method call and its result
    aws,         \* what the AWS API answers to each request of a ResourceChecker run
    stdin        \* the lines the terminal has still to give to input()

vars == <<data, scan_modes, args, pc, trace, emitted, out, aws, stdin>>

(***************************************************************************)
(* Bounds.                                                                 *)
(***************************************************************************)
MaxAccounts == 2   \* a document holds at most this many accounts
MaxLines == 3      \* at most this many lines are typed at the menu before input ends

(***************************************************************************)
(* Python primitives.                                                      *)
(***************************************************************************)
EmptyDict == [k \in {} |-> k]

\* d.get(k, default)
Get(d, k, default) == IF k \in DOMAIN d THEN d[k] ELSE default

\* what a for loop prints, given what each of its iterations prints
RECURSIVE Flatten(_)
Flatten(parts) ==
    IF Len(parts) = 0 THEN <<>>
    ELSE Flatten(SubSeq(parts, 1, Len(parts) - 1)) \o parts[Len(parts)]

\* the counter a for loop accumulates, given what each of its iterations adds
RECURSIVE Sum(_)
Sum(parts) ==
    IF Len(parts) = 0 THEN 0
    ELSE Sum(SubSeq(parts, 1, Len(parts) - 1)) + parts[Len(parts)]

\* str.lower() of one character, over the alphabet of the sample strings
LowerChar(c) ==
    CASE c = "A" -> "a"
      [] c = "B" -> "b"
      [] c = "N" -> "n"
      [] OTHER -> c

\* str.lower()
Lower(s) == [i \in 1..Len(s) |-> LowerChar(s[i])]

\* p in s, for strings
Contains(s, p) ==
    \E i \in 0..(Len(s) - Len(p)) : SubSeq(s, i + 1, i + Len(p)) = p

\* the string 'Unknown' where a name (a sequence of characters) is expected
UnknownName == <<"Unknown">>


(***************************************************************************)
(* The input documents.  The collector's records are sampled: each sample  *)
(* leaves out different keys, so that every .get default and every d[k]    *)
(* of the analyzer is exercised.                                           *)
(***************************************************************************)
\* a full-mode record: every key present, bound to a Web ACL
AlbFull ==
    [basic_info |->
        [LoadBalancerName |-> <<"a", "b">>, FriendlyType |-> "ALB",
         Type |-> "application", State |-> [Code |-> "active"],
         DNSName |-> "ab.dns", Scheme |-> "internet-facing", VpcId |-> "vpc-1"],
     waf_association |->
        [has_waf |-> TRUE, WebACL |-> [Name |-> "acl", Id |-> "id-1", ARN |-> "arn-1"]],
     listeners |->
        << [Protocol |-> "HTTP", Rules |-> <<"rule", "rule">>],
           [Rules |-> <<"rule">>] >>,
     target_groups |->
        << [Protocol |-> "HTTP",
            target_health |-> << [TargetHealth |-> [State |-> "healthy"]], EmptyDict >>] >>]

\* a standard-mode record: Type but no FriendlyType, no Rules, no Web ACL
AlbStd ==
    [basic_info |-> [LoadBalancerName |-> <<"A", "B">>, Type |-> "network"],
     waf_association |-> [has_waf |-> FALSE],
     listeners |-> << [Protocol |-> "HTTPS"] >>]

\* a record with no basic_info at all
AlbBare ==
    [waf_association |-> [has_waf |-> FALSE],
     target_groups |->
        << [Protocol |-> "TCP",
            target_health |-> << [TargetHealth |-> [State |-> "unhealthy"]] >>] >>]

\* a quick-mode record: bound to a Web ACL whose description is missing
AlbQuick ==
    [basic_info |-> [LoadBalancerName |-> <<"b">>, FriendlyType |-> "NLB"],
     waf_association |-> [has_waf |-> TRUE]]

\* a record with no waf_association key
AlbNoWafKey ==
    [basic_info |-> [LoadBalancerName |-> <<"a">>, FriendlyType |-> "ALB"]]

\* a record whose waf_association has no has_waf key
AlbNoHasWaf ==
    [basic_info |-> [LoadBalancerName |-> <<"a">>, FriendlyType |-> "ALB"],
     waf_association |-> EmptyDict]

\* the "regions" lists of the sample accounts in which no d[k] can fail
GoodRegionLists ==
    { << [region |-> "us", load_balancers |-> <<AlbFull, AlbStd>>],
         [region |-> "eu", load_balancers |-> <<AlbQuick>>] >>,
      << [region |-> "eu", load_balancers |-> <<AlbBare, AlbFull>>],
         [region |-> "us"] >>,
      << [region |-> "us", load_balancers |-> <<AlbQuick>>] >>,
      << [region |-> "ap", load_balancers |-> <<AlbQuick, AlbFull>>] >> }

\* the "regions" lists in which some key read with d[k] is absent
BadRegionLists ==
    { << [load_balancers |-> <<AlbFull>>] >>,
      << [region |-> "us", load_balancers |-> <<AlbStd, AlbNoWafKey>>] >>,
      << [region |-> "eu", load_balancers |-> <<AlbNoHasWaf>>] >> }

\* the account keys other than "regions"
AccountHeaders ==
    { EmptyDict,
      [account_info |-> [account_id |-> "111"], profile |-> "p1", scan_mode |-> "quick"],
      [account_info |-> [account_id |-> "111"], profile |-> "p2", scan_mode |-> "full",
       scan_time |-> "t2"],
      [account_info |-> [account_id |-> "222"], scan_mode |-> "standard"] }

AccountSamples ==
    { EmptyDict }
    \cup { h @@ [regions |-> l] : h \in AccountHeaders, l \in GoodRegionLists }
    \cup { [account_info |-> [account_id |-> "222"], scan_mode |-> "standard", regions |-> l] :
             l \in BadRegionLists }

\* what json.load can return: a list of account objects, or another JSON value.
\* Of a value that is no list of objects only what iterating it yields matters:
\* n is the number of its keys (an object), characters (a string) or elements
\* (a list of scalars).
JsonList(items) == [kind |-> "list", n |-> Len(items), items |-> items]
JsonOther(kind, n) == [kind |-> kind, n |-> n, items |-> <<>>]

RECURSIVE SeqsUpTo(_, _)
SeqsUpTo(S, n) ==
    IF n = 0 THEN { <<>> }
    ELSE LET shorter == SeqsUpTo(S, n - 1)
         IN  shorter \cup { Append(s, x) : s \in shorter, x \in S }

NonListDocs ==
    { JsonOther("object", 0), JsonOther("object", 1),
      JsonOther("string", 0), JsonOther("string", 1),
      JsonOther("number", 0), JsonOther("null", 0),
      JsonOther("scalars", 1) }

Docs == { JsonList(items) : items \in SeqsUpTo(AccountSamples, MaxAccounts) } \cup NonListDocs

(***************************************************************************)
(* ALBConfigAnalyzer: the traversal every method shares.                   *)
(***************************************************************************)
\* what "for account in self.data" yields once __init__ has returned
Accounts(d) == IF d.kind = "list" THEN d.items ELSE <<>>

\* account.get('account_info', {}).get('account_id', 'Unknown')
AccountId(account) == Get(Get(account, "account_info", EmptyDict), "account_id", "Unknown")

\* account.get('profile', 'Unknown')
Profile(account) == Get(account, "profile", "Unknown")

\* account.get('scan_mode', 'unknown')
ScanMode(account) == Get(account, "scan_mode", "unknown")

\* account.get('regions', [])
Regions(account) == Get(account, "regions", <<>>)

\* region_data.get('load_balancers', [])
Albs(region_data) == Get(region_data, "load_balancers", <<>>)

\* basic.get('FriendlyType', basic.get('Type', default))
TypeOf(basic, default) == Get(basic, "FriendlyType", Get(basic, "Type", default))

\* the truth value of waf.get('has_waf')
WafGetHasWaf(waf) == IF "has_waf" \in DOMAIN waf THEN waf.has_waf ELSE FALSE

\* region_data['region'] raises KeyError for some region of the document
RegionKeyMissing(items) ==
    \E a \in 1..Len(items) : \E r \in 1..Len(Regions(items[a])) :
        "region" \notin DOMAIN Regions(items[a])[r]

\* alb['waf_association']['has_waf'] raises KeyError for this record
HasWafRaises(alb) ==
    \/ "waf_association" \notin DOMAIN alb
    \/ "has_waf" \notin DOMAIN alb.waf_association

\* alb['waf_association']['has_waf'] raises KeyError for some record of the document
HasWafKeyMissing(items) ==
    \E a \in 1..Len(items) : \E r \in 1..Len(Regions(items[a])) :
        \E i \in 1..Len(Albs(Regions(items[a])[r])) :
            HasWafRaises(Albs(Regions(items[a])[r])[i])

\* sum(1 for alb in albs if alb['waf_association']['has_waf'])
CountWithWaf(albs) ==
    Sum([i \in 1..Len(albs) |-> IF albs[i].waf_association.has_waf THEN 1 ELSE 0])

Ok(value) == [status |-> "ok", value |-> value]
Raised(exception) == [status |-> exception, value |-> <<>>]

\* a variant that divides whatever the denominator
PercentUnguarded(part, whole) == [num |-> part * 100, den |-> whole]

\* (part / whole * 100) if whole > 0 else 0, kept exact as a fraction
Percent(part, whole) ==
    IF whole > 0 THEN [num |-> part * 100, den |-> whole] ELSE [num |-> 0, den |-> 1]

(***************************************************************************)
(* __init__: self.scan_modes maps each account_id to the scan_mode of the  *)
(* last account carrying that id.                                          *)
(***************************************************************************)
RECURSIVE ScanModesOf(_, _)
ScanModesOf(items, n) ==
    IF n = 0 THEN EmptyDict
    ELSE (AccountId(items[n]) :> ScanMode(items[n])) @@ ScanModesOf(items, n - 1)

\* the exception "for account in self.data: account.get(...)" ends in, or "ok"
InitOutcome(d) ==
    CASE d.kind = "list" -> "ok"
      [] d.kind \in {"number", "null"} -> "TypeError"
      [] OTHER -> IF d.n = 0 THEN "ok" ELSE "AttributeError"

(***************************************************************************)
(* show_scan_info                                                          *)
(***************************************************************************)
\* mode_descriptions.get(scan_mode, scan_mode)
ModeDescription(scan_mode) ==
    CASE scan_mode = "quick" -> "Quick: basic info + WAF"
      [] scan_mode = "standard" -> "Standard: + listeners + target groups"
      [] scan_mode = "full" -> "Full: + listener rules + target health"
      [] scan_mode = "unknown" -> "unknown mode"
      [] OTHER -> scan_mode

ShowScanInfo(items) ==
    Ok([a \in 1..Len(items) |->
          [account_id |-> AccountId(items[a]), profile |-> Profile(items[a]),
           scan_time |-> Get(items[a], "scan_time", "Unknown"),
           mode |-> ModeDescription(ScanMode(items[a]))]])

(***************************************************************************)
(* list_all_albs.  The value is the sequence of printed entries: one per   *)
(* account, one per region that holds a load balancer, one per load        *)
(* balancer.  "at" is the place <<account, region, index>> of the record   *)
(* in the document.                                                        *)
(***************************************************************************)
\* the five fields list_all_albs and search print of a record
AlbEntry(alb, at) ==
    LET basic == Get(alb, "basic_info", EmptyDict)
        waf == Get(alb, "waf_association", EmptyDict)
    IN  [k |-> "alb", at |-> at,
         name |-> Get(basic, "LoadBalancerName", UnknownName),
         type |-> TypeOf(basic, "Unknown"),
         state |-> Get(Get(basic, "State", EmptyDict), "Code", "Unknown"),
         dns |-> Get(basic, "DNSName", "N/A"),
         has_waf |-> WafGetHasWaf(waf),
         waf_name |-> IF WafGetHasWaf(waf)
                      THEN Get(Get(waf, "WebACL", EmptyDict), "Name", "Unknown")
                      ELSE ""]

ListAllAlbs(items) ==
    IF RegionKeyMissing(items) THEN Raised("KeyError")
    ELSE Ok(Flatten([a \in 1..Len(items) |->
                <<[k |-> "account", account_id |-> AccountId(items[a]),
                   profile |-> Profile(items[a])]>>
                \o Flatten([r \in 1..Len(Regions(items[a])) |->
                      LET region_data == Regions(items[a])[r]
                          albs == Albs(region_data)
                      IN  IF albs = <<>> THEN <<>>
                          ELSE <<[k |-> "region", region |-> region_data.region]>>
                               \o [i \in 1..Len(albs) |-> AlbEntry(albs[i], <<a, r, i>>)]])]))

(***************************************************************************)
(* analyze_waf_coverage                                                    *)
(***************************************************************************)
\* a variant that reports every load balancer of the account as being without WAF
AccountStatAllWithout(account) ==
    LET regions == Regions(account)
        account_albs == Sum([r \in 1..Len(regions) |-> Len(Albs(regions[r]))])
        account_with_waf == Sum([r \in 1..Len(regions) |-> CountWithWaf(Albs(regions[r]))])
    IN  [account_id |-> AccountId(account), profile |-> Profile(account),
         total |-> account_albs, with_waf |-> account_with_waf,
         without_waf |-> account_albs,
         coverage |-> Percent(account_with_waf, account_albs)]

AccountStat(account) ==
    LET regions == Regions(account)
        account_albs == Sum([r \in 1..Len(regions) |-> Len(Albs(regions[r]))])
        account_with_waf == Sum([r \in 1..Len(regions) |-> CountWithWaf(Albs(regions[r]))])
    IN  [account_id |-> AccountId(account), profile |-> Profile(account),
         total |-> account_albs, with_waf |-> account_with_waf,
         without_waf |-> account_albs - account_with_waf,
         coverage |-> Percent(account_with_waf, account_albs)]

\* a variant whose global total is assigned, not accumulated: it ends as the
\* total of the last account
AnalyzeWafCoverageLastTotal(items) ==
    IF HasWafKeyMissing(items) THEN Raised("KeyError")
    ELSE LET account_stats == [a \in 1..Len(items) |-> AccountStat(items[a])]
             total_albs == IF items = <<>> THEN 0 ELSE account_stats[Len(items)].total
             total_with_waf == Sum([a \in 1..Len(items) |-> account_stats[a].with_waf])
             total_without_waf == Sum([a \in 1..Len(items) |-> account_stats[a].without_waf])
         IN  Ok([accounts |-> account_stats,
                 global |-> [total |-> total_albs, with_waf |-> total_with_waf,
                             without_waf |-> total_without_waf,
                             coverage |-> Percent(total_with_waf, total_albs)]])

AnalyzeWafCoverage(items) ==
    IF HasWafKeyMissing(items) THEN Raised("KeyError")
    ELSE LET account_stats == [a \in 1..Len(items) |-> AccountStat(items[a])]
             total_albs == Sum([a \in 1..Len(items) |-> account_stats[a].total])
             total_with_waf == Sum([a \in 1..Len(items) |-> account_stats[a].with_waf])
             total_without_waf == Sum([a \in 1..Len(items) |-> account_stats[a].without_waf])
         IN  Ok([accounts |-> account_stats,
                 global |-> [total |-> total_albs, with_waf |-> total_with_waf,
                             without_waf |-> total_without_waf,
                             coverage |-> Percent(total_with_waf, total_albs)]])

(***************************************************************************)
(* find_without_waf.  An account entry is printed before the first region  *)
(* of the account that holds a record without WAF, a region entry before   *)
(* the records of each such region.                                        *)
(***************************************************************************)
\* the indices of [alb for alb in albs if not alb['waf_association']['has_waf']]
UnwafIndices(albs) ==
    Flatten([i \in 1..Len(albs) |-> IF ~albs[i].waf_association.has_waf THEN <<i>> ELSE <<>>])

UnwafEntry(alb, at) ==
    LET basic == Get(alb, "basic_info", EmptyDict)
    IN  [k |-> "alb", at |-> at,
         name |-> Get(basic, "LoadBalancerName", UnknownName),
         type |-> TypeOf(basic, "Unknown"),
         scheme |-> Get(basic, "Scheme", "Unknown"),
         dns |-> Get(basic, "DNSName", "N/A")]

\* a variant that prints the account entry whether or not a record follows
UnwafOfAccountAlwaysNamed(items, a) ==
    LET regions == Regions(items[a])
    IN  <<[k |-> "account", account_id |-> AccountId(items[a]), profile |-> Profile(items[a])]>>
        \o Flatten([r \in 1..Len(regions) |->
                LET albs == Albs(regions[r])
                    unwaf == UnwafIndices(albs)
                IN  IF unwaf = <<>> THEN <<>>
                    ELSE <<[k |-> "region", region |-> regions[r].region]>>
                         \o [j \in 1..Len(unwaf) |->
                               UnwafEntry(albs[unwaf[j]], <<a, r, unwaf[j]>>)]])

\* what the loop over the regions of account a prints
UnwafOfAccount(items, a) ==
    LET regions == Regions(items[a])
        body == Flatten([r \in 1..Len(regions) |->
                    LET albs == Albs(regions[r])
                        unwaf == UnwafIndices(albs)
                    IN  IF unwaf = <<>> THEN <<>>
                        ELSE <<[k |-> "region", region |-> regions[r].region]>>
                             \o [j \in 1..Len(unwaf) |->
                                   UnwafEntry(albs[unwaf[j]], <<a, r, unwaf[j]>>)]])
    IN  IF body = <<>> THEN <<>>
        ELSE <<[k |-> "account", account_id |-> AccountId(items[a]),
                profile |-> Profile(items[a])]>> \o body

FindWithoutWaf(items) ==
    IF RegionKeyMissing(items) \/ HasWafKeyMissing(items) THEN Raised("KeyError")
    ELSE LET entries == Flatten([a \in 1..Len(items) |-> UnwafOfAccount(items, a)])
         IN  Ok([entries |-> entries, found_any |-> entries # <<>>])

(***************************************************************************)
(* Counting into a defaultdict and sorted(..., reverse=True).              *)
(***************************************************************************)
\* a dict of counters filled in the order of keys: its items, in insertion order
RECURSIVE Tally(_)
Tally(keys) ==
    IF keys = <<>> THEN <<>>
    ELSE LET prev == Tally(SubSeq(keys, 1, Len(keys) - 1))
             key == keys[Len(keys)]
         IN  IF \E j \in 1..Len(prev) : prev[j].key = key
             THEN [j \in 1..Len(prev) |->
                     IF prev[j].key = key THEN [prev[j] EXCEPT !.count = @ + 1] ELSE prev[j]]
             ELSE Append(prev, [key |-> key, count |-> 1])

\* a variant that is not stable: among items with equal keys the later comes first
RECURSIVE SortedReverseLaterFirst(_, _)
SortedReverseLaterFirst(items, key) ==
    IF items = <<>> THEN <<>>
    ELSE LET prev == SortedReverseLaterFirst(SubSeq(items, 1, Len(items) - 1), key)
             x == items[Len(items)]
             p == Cardinality({ j \in 1..Len(prev) : prev[j][key] > x[key] })
         IN  SubSeq(prev, 1, p) \o <<x>> \o SubSeq(prev, p + 1, Len(prev))

\* sorted(items, key=lambda x: x[key], reverse=True): a stable sort, so items
\* with equal keys keep their order
RECURSIVE SortedReverse(_, _)
SortedReverse(items, key) ==
    IF items = <<>> THEN <<>>
    ELSE LET prev == SortedReverse(SubSeq(items, 1, Len(items) - 1), key)
             x == items[Len(items)]
             p == Cardinality({ j \in 1..Len(prev) : prev[j][key] >= x[key] })
         IN  SubSeq(prev, 1, p) \o <<x>> \o SubSeq(prev, p + 1, Len(prev))

\* every load balancer of an account, in document order
AlbsOfAccount(account) ==
    Flatten([r \in 1..Len(Regions(account)) |-> Albs(Regions(account)[r])])

(***************************************************************************)
(* analyze_by_type                                                         *)
(***************************************************************************)
\* alb.get('basic_info', {}).get('FriendlyType', 'Unknown')
ByTypeKey(alb) == Get(Get(alb, "basic_info", EmptyDict), "FriendlyType", "Unknown")

\* a variant that skips the records that carry no FriendlyType
AnalyzeByTypeSkipsUntyped(items) ==
    LET types == Flatten([a \in 1..Len(items) |->
                    LET albs == AlbsOfAccount(items[a])
                    IN  Flatten([i \in 1..Len(albs) |->
                            IF "FriendlyType" \in DOMAIN Get(albs[i], "basic_info", EmptyDict)
                            THEN <<ByTypeKey(albs[i])>> ELSE <<>>])])
    IN  Ok(SortedReverse(Tally(types), "count"))

AnalyzeByType(items) ==
    LET types == Flatten([a \in 1..Len(items) |->
                    LET albs == AlbsOfAccount(items[a])
                    IN  [i \in 1..Len(albs) |-> ByTypeKey(albs[i])]])
    IN  Ok(SortedReverse(Tally(types), "count"))

(***************************************************************************)
(* analyze_by_region                                                       *)
(***************************************************************************)
\* a variant that keeps, for each region code, the counts of its last region scan only
RECURSIVE RegionStatsLastScanOnly(_)
RegionStatsLastScanOnly(region_datas) ==
    IF region_datas = <<>> THEN <<>>
    ELSE LET prev == RegionStatsLastScanOnly(SubSeq(region_datas, 1, Len(region_datas) - 1))
             region_data == region_datas[Len(region_datas)]
             region == region_data.region
             albs == Albs(region_data)
         IN  IF \E j \in 1..Len(prev) : prev[j].region = region
             THEN [j \in 1..Len(prev) |->
                     IF prev[j].region = region
                     THEN [prev[j] EXCEPT !.total = Len(albs),
                                          !.with_waf = CountWithWaf(albs)]
                     ELSE prev[j]]
             ELSE Append(prev, [region |-> region, total |-> Len(albs),
                                with_waf |-> CountWithWaf(albs)])

\* region_stats after the loop: one item per region code, in insertion order
RECURSIVE RegionStats(_)
RegionStats(region_datas) ==
    IF region_datas = <<>> THEN <<>>
    ELSE LET prev == RegionStats(SubSeq(region_datas, 1, Len(region_datas) - 1))
             region_data == region_datas[Len(region_datas)]
             region == region_data.region
             albs == Albs(region_data)
         IN  IF \E j \in 1..Len(prev) : prev[j].region = region
             THEN [j \in 1..Len(prev) |->
                     IF prev[j].region = region
                     THEN [prev[j] EXCEPT !.total = @ + Len(albs),
                                          !.with_waf = @ + CountWithWaf(albs)]
                     ELSE prev[j]]
             ELSE Append(prev, [region |-> region, total |-> Len(albs),
                                with_waf |-> CountWithWaf(albs)])

AnalyzeByRegion(items) ==
    IF RegionKeyMissing(items) \/ HasWafKeyMissing(items) THEN Raised("KeyError")
    ELSE LET region_datas == Flatten([a \in 1..Len(items) |-> Regions(items[a])])
             sorted == SortedReverse(RegionStats(region_datas), "total")
         IN  Ok([j \in 1..Len(sorted) |->
                   [region |-> sorted[j].region, total |-> sorted[j].total,
                    with_waf |-> sorted[j].with_waf,
                    coverage |-> Percent(sorted[j].with_waf, sorted[j].total)]])

(***************************************************************************)
(* search.  One group per region that holds a matching record.             *)
(***************************************************************************)
\* a variant that lowers the name but not the pattern
MatchesPatternAsTyped(name_pattern, alb) ==
    Contains(Lower(Get(Get(alb, "basic_info", EmptyDict), "LoadBalancerName", <<>>)),
             name_pattern)

\* name_pattern.lower() in alb.get('basic_info', {}).get('LoadBalancerName', '').lower()
Matches(name_pattern, alb) ==
    Contains(Lower(Get(Get(alb, "basic_info", EmptyDict), "LoadBalancerName", <<>>)),
             Lower(name_pattern))

\* the indices of matching_albs in albs
MatchingIndices(name_pattern, albs) ==
    Flatten([i \in 1..Len(albs) |-> IF Matches(name_pattern, albs[i]) THEN <<i>> ELSE <<>>])

Search(items, name_pattern) ==
    IF RegionKeyMissing(items) THEN Raised("KeyError")
    ELSE LET groups ==
               Flatten([a \in 1..Len(items) |->
                   Flatten([r \in 1..Len(Regions(items[a])) |->
                       LET region_data == Regions(items[a])[r]
                           albs == Albs(region_data)
                           matching == MatchingIndices(name_pattern, albs)
                       IN  IF matching = <<>> THEN <<>>
                           ELSE <<[account_id |-> AccountId(items[a]),
                                   profile |-> Profile(items[a]),
                                   region |-> region_data.region,
                                   albs |-> [j \in 1..Len(matching) |->
                                               AlbEntry(albs[matching[j]],
                                                        <<a, r, matching[j]>>)]]>>])])
         IN  Ok([groups |-> groups, found_any |-> groups # <<>>])

(***************************************************************************)
(* analyze_advanced_stats.  Whether the statistics are shown at all, and   *)
(* whether the full-mode part is shown, is read from self.scan_modes; what *)
(* each record contributes is read from its own account's scan_mode.       *)
(***************************************************************************)
\* a variant that forgets the mode test: quick-mode records are counted as well
IsAdvancedModeAnyMode(scan_mode) == scan_mode \in {"quick", "standard", "full"}

\* scan_mode in ['standard', 'full']
IsAdvancedMode(scan_mode) == scan_mode \in {"standard", "full"}

\* scan_mode == 'full'
IsFullMode(scan_mode) == scan_mode = "full"

\* any(mode in ['standard', 'full'] for mode in self.scan_modes.values())
HasAdvancedData(modes) == \E id \in DOMAIN modes : modes[id] \in {"standard", "full"}

\* any(mode == 'full' for mode in self.scan_modes.values())
HasFullMode(modes) == \E id \in DOMAIN modes : modes[id] = "full"

\* the listeners the loop visits in account: alb.get('listeners', []) of each record
ListenersSeen(account) ==
    IF IsAdvancedMode(ScanMode(account))
    THEN LET albs == AlbsOfAccount(account)
         IN  Flatten([i \in 1..Len(albs) |-> Get(albs[i], "listeners", <<>>)])
    ELSE <<>>

\* the target groups the loop visits in account
TargetGroupsSeen(account) ==
    IF IsAdvancedMode(ScanMode(account))
    THEN LET albs == AlbsOfAccount(account)
         IN  Flatten([i \in 1..Len(albs) |-> Get(albs[i], "target_groups", <<>>)])
    ELSE <<>>

\* what account adds to total_rules
RulesSeen(account) ==
    IF IsFullMode(ScanMode(account))
    THEN LET listeners == ListenersSeen(account)
         IN  Sum([i \in 1..Len(listeners) |-> Len(Get(listeners[i], "Rules", <<>>))])
    ELSE 0

\* the targets whose health the loop counts in account
TargetsSeen(account) ==
    IF IsFullMode(ScanMode(account))
    THEN LET tgs == TargetGroupsSeen(account)
         IN  Flatten([i \in 1..Len(tgs) |-> Get(tgs[i], "target_health", <<>>)])
    ELSE <<>>

AnalyzeAdvancedStats(items, modes) ==
    IF ~HasAdvancedData(modes)
    THEN Ok([available |-> FALSE, required |-> "standard or full"])
    ELSE LET listeners == Flatten([a \in 1..Len(items) |-> ListenersSeen(items[a])])
             target_groups == Flatten([a \in 1..Len(items) |-> TargetGroupsSeen(items[a])])
             targets == Flatten([a \in 1..Len(items) |-> TargetsSeen(items[a])])
             total_targets == Len(targets)
             health_states ==
                 SortedReverse(Tally([i \in 1..Len(targets) |->
                              Get(Get(targets[i], "TargetHealth", EmptyDict),
                                  "State", "Unknown")]), "count")
         IN  Ok([available |-> TRUE,
                 total_listeners |-> Len(listeners),
                 listener_protocols |->
                     SortedReverse(Tally([i \in 1..Len(listeners) |->
                                  Get(listeners[i], "Protocol", "Unknown")]), "count"),
                 total_target_groups |-> Len(target_groups),
                 target_group_protocols |->
                     SortedReverse(Tally([i \in 1..Len(target_groups) |->
                                  Get(target_groups[i], "Protocol", "Unknown")]), "count"),
                 has_full_mode |-> HasFullMode(modes),
                 total_rules |-> Sum([a \in 1..Len(items) |-> RulesSeen(items[a])]),
                 total_targets |-> total_targets,
                 health_states |->
                     [j \in 1..Len(health_states) |->
                        [state |-> health_states[j].key, count |-> health_states[j].count,
                         percentage |-> Percent(health_states[j].count, total_targets)]]])

(***************************************************************************)
(* export_csv.  The value is the rows written after the header.            *)
(***************************************************************************)
CsvRow(account, region, alb, at) ==
    LET basic == Get(alb, "basic_info", EmptyDict)
        waf == Get(alb, "waf_association", EmptyDict)
        web_acl == Get(waf, "WebACL", EmptyDict)
    IN  [at |-> at,
         Account_ID |-> AccountId(account), Profile |-> Profile(account),
         Region |-> region,
         ALB_Name |-> Get(basic, "LoadBalancerName", <<>>),
         Type |-> TypeOf(basic, ""),
         State |-> Get(Get(basic, "State", EmptyDict), "Code", ""),
         Scheme |-> Get(basic, "Scheme", ""),
         DNS_Name |-> Get(basic, "DNSName", ""),
         VPC_ID |-> Get(basic, "VpcId", ""),
         Has_WAF |-> IF WafGetHasWaf(waf) THEN "Yes" ELSE "No",
         WAF_Name |-> IF WafGetHasWaf(waf) THEN Get(web_acl, "Name", "") ELSE "",
         WAF_ID |-> IF WafGetHasWaf(waf) THEN Get(web_acl, "Id", "") ELSE "",
         WAF_ARN |-> IF WafGetHasWaf(waf) THEN Get(web_acl, "ARN", "") ELSE "",
         Listener_Count |-> Len(Get(alb, "listeners", <<>>)),
         TargetGroup_Count |-> Len(Get(alb, "target_groups", <<>>))]

\* a variant that writes one row per region, that of its first record
ExportCsvRowPerRegion(items, output_file) ==
    IF output_file = "" THEN Raised("FileNotFoundError")
    ELSE IF RegionKeyMissing(items) THEN Raised("KeyError")
    ELSE Ok(Flatten([a \in 1..Len(items) |->
                Flatten([r \in 1..Len(Regions(items[a])) |->
                    LET region_data == Regions(items[a])[r]
                        albs == Albs(region_data)
                    IN  IF albs = <<>> THEN <<>>
                        ELSE <<CsvRow(items[a], region_data.region, albs[1], <<a, r, 1>>)>>])]))

ExportCsv(items, output_file) ==
    IF output_file = "" THEN Raised("FileNotFoundError")
    ELSE IF RegionKeyMissing(items) THEN Raised("KeyError")
    ELSE Ok(Flatten([a \in 1..Len(items) |->
                Flatten([r \in 1..Len(Regions(items[a])) |->
                    LET region_data == Regions(items[a])[r]
                        albs == Albs(region_data)
                    IN  [i \in 1..Len(albs) |->
                           CsvRow(items[a], region_data.region, albs[i], <<a, r, i>>)]])]))

(***************************************************************************)
(* The command line of main().  An option that takes a value is None       *)
(* (given = FALSE) or the string that followed it.                         *)
(***************************************************************************)
None(empty) == [given |-> FALSE, value |-> empty]
Given(value) == [given |-> TRUE, value |-> value]

\* the name patterns searched for, and the paths exported to
Patterns == { <<>>, <<"a">>, <<"A">>, <<"a", "B">>, <<"b", "a">> }
Paths == { "", "out.csv" }

NoArgs ==
    [list |-> FALSE, waf_coverage |-> FALSE, no_waf |-> FALSE, stats |-> FALSE,
     by_type |-> FALSE, by_region |-> FALSE, search |-> None(<<>>), csv |-> None("")]

ArgsSet ==
    [list : BOOLEAN, waf_coverage : BOOLEAN, no_waf : BOOLEAN, stats : BOOLEAN,
     by_type : BOOLEAN, by_region : BOOLEAN,
     search : { None(<<>>), Given(<<>>), Given(<<"a">>) },
     csv : { None(""), Given(""), Given("out.csv") }]

\* the truth value Python gives an optional string: None and '' are false
Truthy(option, empty) == option.given /\ option.value # empty

\* a variant whose default run also audits the records without WAF
PlanDefaultRunsAudit(a) ==
    IF ~(\/ a.list \/ a.waf_coverage \/ a.no_waf \/ a.stats \/ a.by_type \/ a.by_region
         \/ Truthy(a.search, <<>>) \/ Truthy(a.csv, ""))
    THEN <<"scan_info", "list", "coverage", "no_waf", "stats", "by_type", "by_region">>
    ELSE <<"scan_info">>
         \o (IF a.list THEN <<"list">> ELSE <<>>)
         \o (IF a.waf_coverage THEN <<"coverage">> ELSE <<>>)
         \o (IF a.no_waf THEN <<"no_waf">> ELSE <<>>)
         \o (IF a.stats THEN <<"stats">> ELSE <<>>)
         \o (IF a.by_type THEN <<"by_type">> ELSE <<>>)
         \o (IF a.by_region THEN <<"by_region">> ELSE <<>>)
         \o (IF Truthy(a.search, <<>>) THEN <<"search">> ELSE <<>>)
         \o (IF Truthy(a.csv, "") THEN <<"csv">> ELSE <<>>)

\* the methods main() calls for a command line, in order
Plan(a) ==
    IF ~(\/ a.list \/ a.waf_coverage \/ a.no_waf \/ a.stats \/ a.by_type \/ a.by_region
         \/ Truthy(a.search, <<>>) \/ Truthy(a.csv, ""))
    THEN <<"scan_info", "list", "coverage", "stats", "by_type", "by_region">>
    ELSE <<"scan_info">>
         \o (IF a.list THEN <<"list">> ELSE <<>>)
         \o (IF a.waf_coverage THEN <<"coverage">> ELSE <<>>)
         \o (IF a.no_waf THEN <<"no_waf">> ELSE <<>>)
         \o (IF a.stats THEN <<"stats">> ELSE <<>>)
         \o (IF a.by_type THEN <<"by_type">> ELSE <<>>)
         \o (IF a.by_region THEN <<"by_region">> ELSE <<>>)
         \o (IF Truthy(a.search, <<>>) THEN <<"search">> ELSE <<>>)
         \o (IF Truthy(a.csv, "") THEN <<"csv">> ELSE <<>>)

(***************************************************************************)
(* The analyzer as an object: constructed from a document, then queried    *)
(* by calling its methods in any order.                                    *)
(***************************************************************************)
\* the record of a call: the method, its argument and how it ended
Call(op, arg, result) ==
    [op |-> op, arg |-> arg, status |-> result.status, value |-> result.value]

NoCall == Call("none", <<>>, Ok(<<>>))

Init ==
    /\ data \in Docs
    /\ scan_modes = EmptyDict
    /\ args = NoArgs
    /\ pc = "new"
    /\ trace = <<>>
    /\ emitted = <<>>
    /\ out = NoCall
    /\ aws = EmptyDict
    /\ stdin = <<>>

\* analyzer = ALBConfigAnalyzer(json_file)
Construct ==
    /\ pc = "new"
    /\ IF InitOutcome(data) = "ok"
       THEN /\ scan_modes' = ScanModesOf(Accounts(data), Len(Accounts(data)))
            /\ pc' = "ready"
            /\ out' = out
       ELSE /\ scan_modes' = scan_modes
            /\ pc' = "failed"
            /\ out' = Call("init", <<>>, Raised(InitOutcome(data)))
    /\ UNCHANGED <<data, args, trace, emitted, aws, stdin>>

\* a variant in which the methods read the regions of an account with
\* account.setdefault('regions', []): the key is added where it is absent
DataAfterSetDefault(op, d) ==
    IF op = "scan_info" THEN d
    ELSE [kind |-> d.kind, n |-> d.n,
          items |-> [a \in 1..Len(d.items) |->
                       IF "regions" \in DOMAIN d.items[a] THEN d.items[a]
                       ELSE d.items[a] @@ [regions |-> <<>>]]]

\* self.data after the method op has run: the methods read the document with
\* .get and [], build their counters in local variables, and assign nothing to
\* or through self.data
DataAfter(op, d) == d

\* a method called on the constructed analyzer
Query(op, arg, result) ==
    /\ pc = "ready"
    /\ out' = Call(op, arg, result)
    /\ data' = DataAfter(op, data)
    /\ UNCHANGED <<scan_modes, args, pc, trace, emitted, aws, stdin>>

CallShowScanInfo == Query("scan_info", <<>>, ShowScanInfo(Accounts(data)))
CallListAllAlbs == Query("list", <<>>, ListAllAlbs(Accounts(data)))
CallAnalyzeWafCoverage == Query("coverage", <<>>, AnalyzeWafCoverage(Accounts(data)))
CallFindWithoutWaf == Query("no_waf", <<>>, FindWithoutWaf(Accounts(data)))
CallAnalyzeAdvancedStats ==
    Query("stats", <<>>, AnalyzeAdvancedStats(Accounts(data), scan_modes))
CallAnalyzeByType == Query("by_type", <<>>, AnalyzeByType(Accounts(data)))
CallAnalyzeByRegion == Query("by_region", <<>>, AnalyzeByRegion(Accounts(data)))
CallSearch == \E p \in Patterns : Query("search", p, Search(Accounts(data), p))
CallExportCsv == \E f \in Paths : Query("csv", f, ExportCsv(Accounts(data), f))

Next ==
    \/ Construct
    \/ CallShowScanInfo
    \/ CallListAllAlbs
    \/ CallAnalyzeWafCoverage
    \/ CallFindWithoutWaf
    \/ CallAnalyzeAdvancedStats
    \/ CallAnalyzeByType
    \/ CallAnalyzeByRegion
    \/ CallSearch
    \/ CallExportCsv

Spec == Init /\ [][Next]_vars

(***************************************************************************)
(* main(): the analyzer is constructed, then the methods of Plan(args) are *)
(* called in order.  Each method prints its banner before it reads the     *)
(* document; an exception ends the run.                                    *)
(***************************************************************************)
\* the documents main() is run on
MainDocs ==
    { JsonList(<<>>),
      JsonList(<<[account_info |-> [account_id |-> "111"], profile |-> "p2",
                  scan_mode |-> "full",
                  regions |-> << [region |-> "us", load_balancers |-> <<AlbFull, AlbStd>>] >>]>>),
      JsonList(<<[scan_mode |-> "quick",
                  regions |-> << [region |-> "us",
                                  load_balancers |-> <<AlbQuick, AlbNoWafKey>>] >>]>>),
      JsonList(<<[regions |-> << [load_balancers |-> <<AlbStd>>] >>]>>),
      JsonOther("object", 0), JsonOther("object", 1),
      JsonOther("string", 0), JsonOther("number", 0), JsonOther("null", 0) }

InitMain ==
    /\ data \in MainDocs
    /\ scan_modes = EmptyDict
    /\ args \in ArgsSet
    /\ pc = "main"
    /\ trace = <<>>
    /\ emitted = <<>>
    /\ out = NoCall
    /\ aws = EmptyDict
    /\ stdin = <<>>

\* analyzer = ALBConfigAnalyzer(args.json_file)
MainConstruct ==
    /\ pc = "main"
    /\ IF InitOutcome(data) = "ok"
       THEN /\ scan_modes' = ScanModesOf(Accounts(data), Len(Accounts(data)))
            /\ pc' = "running"
            /\ out' = out
       ELSE /\ scan_modes' = scan_modes
            /\ pc' = "aborted"
            /\ out' = Call("init", <<>>, Raised(InitOutcome(data)))
    /\ UNCHANGED <<data, args, trace, emitted, aws, stdin>>

\* the next method of the plan is op: it is called, and main() goes on if it returns
Step(op, arg, result) ==
    /\ pc = "running"
    /\ Plan(args)[Len(trace) + 1] = op
    /\ trace' = Append(trace, op)
    /\ emitted' = Append(emitted, op)
    /\ out' = Call(op, arg, result)
    /\ pc' = IF result.status # "ok" THEN "aborted"
             ELSE IF Len(trace) + 1 = Len(Plan(args)) THEN "done"
             ELSE "running"
    /\ data' = DataAfter(op, data)
    /\ UNCHANGED <<scan_modes, args, aws, stdin>>

MainShowScanInfo == Step("scan_info", <<>>, ShowScanInfo(Accounts(data)))
MainListAllAlbs == Step("list", <<>>, ListAllAlbs(Accounts(data)))
MainAnalyzeWafCoverage == Step("coverage", <<>>, AnalyzeWafCoverage(Accounts(data)))
MainFindWithoutWaf == Step("no_waf", <<>>, FindWithoutWaf(Accounts(data)))
MainAnalyzeAdvancedStats ==
    Step("stats", <<>>, AnalyzeAdvancedStats(Accounts(data), scan_modes))
MainAnalyzeByType == Step("by_type", <<>>, AnalyzeByType(Accounts(data)))
MainAnalyzeByRegion == Step("by_region", <<>>, AnalyzeByRegion(Accounts(data)))
MainSearch == Step("search", args.search.value, Search(Accounts(data), args.search.value))
MainExportCsv == Step("csv", args.csv.value, ExportCsv(Accounts(data), args.csv.value))

NextMain ==
    \/ MainConstruct
    \/ MainShowScanInfo
    \/ MainListAllAlbs
    \/ MainAnalyzeWafCoverage
    \/ MainFindWithoutWaf
    \/ MainAnalyzeAdvancedStats
    \/ MainAnalyzeByType
    \/ MainAnalyzeByRegion
    \/ MainSearch
    \/ MainExportCsv

SpecMain == InitMain /\ [][NextMain]_vars

(***************************************************************************)
(* ResourceChecker (core/waf_resource_checker.py).  The AWS API is the     *)
(* environment: aws holds, for each request a run can send, the response   *)
(* or the fact that the request raises.  session.client(...) builds a      *)
(* client object and sends no request: it is taken to return.              *)
(***************************************************************************)
Responds(response) == [raises |-> FALSE, response |-> response]
Fails == [raises |-> TRUE, response |-> EmptyDict]

\* sts.get_caller_identity()
IdentityAnswers ==
    { Fails, Responds(EmptyDict), Responds([Account |-> ""]),
      Responds([Account |-> "123456789012"]) }

AclA == [Name |-> "acl-a", Id |-> "id-a", ARN |-> "arn-a"]
AclASecond == [Name |-> "acl-a", Id |-> "id-a2", ARN |-> "arn-a2"]
AclB == [Name |-> "acl-b", Id |-> "id-b", ARN |-> "arn-b"]
AclNoArn == [Name |-> "acl-a", Id |-> "id-x"]
AclNoName == [Id |-> "id-y", ARN |-> "arn-y"]

\* wafv2.list_web_acls(Scope='CLOUDFRONT')
WebAclAnswers ==
    { Fails, Responds(EmptyDict), Responds([WebACLs |-> <<>>]),
      Responds([WebACLs |-> <<AclB>>]),
      Responds([WebACLs |-> <<AclA>>]),
      Responds([WebACLs |-> <<AclB, AclA, AclASecond>>]),
      Responds([WebACLs |-> <<AclNoArn, AclA>>]),
      Responds([WebACLs |-> <<AclNoName, AclA>>]) }

\* the resource types list_associated_resources asks for, in order
ResourceTypes ==
    << "APPLICATION_LOAD_BALANCER", "API_GATEWAY", "APPSYNC", "COGNITO_USER_POOL",
       "APP_RUNNER_SERVICE", "VERIFIED_ACCESS_INSTANCE" >>

\* wafv2.list_resources_for_web_acl(...), one answer per resource type
ResourceAnswers ==
    LET first == { Fails, Responds(EmptyDict), Responds([ResourceArns |-> <<"arn-alb">>]) }
        others == { [t \in 2..6 |-> Responds([ResourceArns |-> <<"arn-res">>])],
                    [t \in 2..6 |-> Fails],
                    [t \in 2..6 |-> IF t = 2 THEN Fails ELSE Responds(EmptyDict)],
                    [t \in 2..6 |-> IF t \in {3, 6} THEN Responds([ResourceArns |-> <<"arn-res">>])
                                    ELSE Fails] }
    IN  { [t \in 1..6 |-> IF t = 1 THEN f ELSE o[t]] : f \in first, o \in others }

DistFull == [Id |-> "E1", DomainName |-> "d.cloudfront.net", Status |-> "Deployed",
             Enabled |-> TRUE]
DistNoStatus == [Id |-> "E2", DomainName |-> "e.cloudfront.net"]

\* cloudfront.list_distributions_by_web_acl_id(WebACLId=...)
DistributionAnswers ==
    { Fails, Responds(EmptyDict),
      Responds([DistributionList |-> [Items |-> <<DistFull>>]]),
      Responds([DistributionList |-> [Items |-> <<DistFull, DistNoStatus>>]]) }

AwsAnswers ==
    [identity : IdentityAnswers, web_acls : WebAclAnswers,
     resources : ResourceAnswers, distributions : DistributionAnswers]

\* ResourceChecker(profile, web_acl_name, region)
CheckerArgs == [profile : {"p1"}, web_acl_name : {"acl-a", "acl-b"}, region : {"us-east-1"}]

\* verify_access: the account id, or None when the request raises or the
\* response has no 'Account'
VerifyAccess(answer) ==
    IF answer.raises \/ "Account" \notin DOMAIN answer.response
    THEN None("")
    ELSE Given(answer.response.Account)

\* what "for acl in response.get('WebACLs', [])" comes to from the i-th ACL on:
\* the first ACL of that name, None if there is none or a key read on the way
\* is absent (KeyError, caught by the method's except)
RECURSIVE FindFrom(_, _, _)
FindFrom(acls, web_acl_name, i) ==
    IF i > Len(acls) THEN None(EmptyDict)
    ELSE IF "Name" \notin DOMAIN acls[i] THEN None(EmptyDict)
    ELSE IF acls[i].Name = web_acl_name
         THEN IF {"Id", "ARN"} \subseteq DOMAIN acls[i] THEN Given(acls[i])
              ELSE None(EmptyDict)
    ELSE FindFrom(acls, web_acl_name, i + 1)

\* find_web_acl
FindWebAcl(web_acl_name, answer) ==
    IF answer.raises THEN None(EmptyDict)
    ELSE FindFrom(Get(answer.response, "WebACLs", <<>>), web_acl_name, 1)

\* a variant that lets the exception of the first request leave the method
ListAssociatedResourcesUncaught(answers) ==
    IF answers[1].raises
    THEN Raised("ClientError")
    ELSE Ok([requested |-> ResourceTypes,
             resources |->
                 Get(answers[1].response, "ResourceArns", <<>>)
                 \o Flatten([t \in 1..5 |->
                        IF answers[t + 1].raises THEN <<>>
                        ELSE Get(answers[t + 1].response, "ResourceArns", <<>>)])])

\* list_associated_resources: the ARNs it returns and the resource types it
\* has asked for.  When the first request raises, the method's except returns
\* []; a later request that raises is passed over.
ListAssociatedResources(answers) ==
    IF answers[1].raises
    THEN Ok([requested |-> <<ResourceTypes[1]>>, resources |-> <<>>])
    ELSE Ok([requested |-> ResourceTypes,
             resources |->
                 Get(answers[1].response, "ResourceArns", <<>>)
                 \o Flatten([t \in 1..5 |->
                        IF answers[t + 1].raises THEN <<>>
                        ELSE Get(answers[t + 1].response, "ResourceArns", <<>>)])])

\* check_cloudfront_distributions: what it prints; it returns None in every case
CheckCloudfrontDistributions(answer) ==
    IF answer.raises THEN Ok("warning")
    ELSE LET items == Get(Get(answer.response, "DistributionList", EmptyDict), "Items", <<>>)
         IN  IF items = <<>> THEN Ok("none")
             ELSE IF \A i \in 1..Len(items) :
                        {"Id", "DomainName", "Status", "Enabled"} \subseteq DOMAIN items[i]
                  THEN Ok("distributions")
                  ELSE Ok("warning")

(***************************************************************************)
(* ResourceChecker.run: one action per step, each with the test run()      *)
(* makes of what the step returned.                                        *)
(***************************************************************************)
InitChecker ==
    /\ data = JsonList(<<>>)
    /\ scan_modes = EmptyDict
    /\ args \in CheckerArgs
    /\ pc = "run"
    /\ trace = <<>>
    /\ emitted = <<>>
    /\ out = NoCall
    /\ aws \in AwsAnswers
    /\ stdin = <<>>

\* a step of run(): its banner is printed, the method is called, and run()
\* goes to next if the method returned, to "raised" if it raised
RunStep(op, banner, arg, result, next) ==
    /\ trace' = Append(trace, op)
    /\ emitted' = emitted \o banner
    /\ out' = Call(op, arg, result)
    /\ pc' = IF result.status = "ok" THEN next ELSE "raised"
    /\ UNCHANGED <<data, scan_modes, args, aws, stdin>>

\* account = self.verify_access(); if not account: return
RunVerifyAccess ==
    /\ pc = "run"
    /\ LET account == VerifyAccess(aws.identity)
       IN  RunStep("verify_access", <<"[1/4]">>, <<>>, Ok(account),
                   IF Truthy(account, "") THEN "verified" ELSE "returned")

\* acl = self.find_web_acl(); if not acl: return
RunFindWebAcl ==
    /\ pc = "verified"
    /\ LET acl == FindWebAcl(args.web_acl_name, aws.web_acls)
       IN  RunStep("find_web_acl", <<"[2/4]">>, <<>>, Ok(acl),
                   IF acl.given THEN "found" ELSE "returned")

\* resources = self.list_associated_resources(acl['ARN'])
RunListAssociatedResources ==
    /\ pc = "found"
    /\ LET acl == FindWebAcl(args.web_acl_name, aws.web_acls).value
       IN  RunStep("list_associated_resources", <<"[3/4]">>, acl.ARN,
                   ListAssociatedResources(aws.resources), "listed")

\* self.check_cloudfront_distributions(acl['ARN']), then the closing line
RunCheckCloudfrontDistributions ==
    /\ pc = "listed"
    /\ LET acl == FindWebAcl(args.web_acl_name, aws.web_acls).value
           result == CheckCloudfrontDistributions(aws.distributions)
       IN  RunStep("check_cloudfront_distributions",
                   IF result.status = "ok" THEN <<"[4/4]", "done">> ELSE <<"[4/4]">>,
                   acl.ARN, result, "completed")

NextChecker ==
    \/ RunVerifyAccess
    \/ RunFindWebAcl
    \/ RunListAssociatedResources
    \/ RunCheckCloudfrontDistributions

\* run() is sequential code: it goes on for as long as it has a step to take
SpecChecker == InitChecker /\ [][NextChecker]_vars /\ WF_vars(NextChecker)

(***************************************************************************)
(* InteractiveMenu (core/waf_interactive.py).  The terminal is the         *)
(* environment: stdin is the sequence of lines input() will return, a line *)
(* being a sequence of characters; CtrlC in place of a line is an          *)
(* interrupt at that prompt (KeyboardInterrupt), and the end of the        *)
(* sequence is the end of input (EOFError).                                *)
(***************************************************************************)
CtrlC == <<"^C">>

\* str.strip(), the blank being the only whitespace of the sample lines
RECURSIVE Strip(_)
Strip(s) ==
    IF s = <<>> THEN <<>>
    ELSE IF Head(s) = " " THEN Strip(Tail(s))
    ELSE IF s[Len(s)] = " " THEN Strip(SubSeq(s, 1, Len(s) - 1))
    ELSE s

\* str.split(): the words of s, separated by blanks
RECURSIVE Split(_)
Split(s) ==
    LET t == Strip(s)
        blanks == { i \in 1..Len(t) : t[i] = " " }
    IN  IF t = <<>> THEN <<>>
        ELSE IF blanks = {} THEN <<t>>
        ELSE LET i == CHOOSE j \in blanks : \A k \in blanks : j <= k
             IN  <<SubSeq(t, 1, i - 1)>> \o Split(SubSeq(t, i + 1, Len(t)))

\* the lines typed in the sample sessions: the six choices, two of them with a
\* blank beside the digit, an empty line, two lines that are no choice, and an
\* interrupt
Lines ==
    { <<"0">>, <<" ", "1">>, <<"2", " ">>, <<"3">>, <<"4">>, <<"5">>, <<>>,
      <<"p", " ", "q">>, <<"N">>, CtrlC }

Sessions == SeqsUpTo(Lines, MaxLines)

\* platform.system(), and whether check_config_file() finds a readable
\* waf_scan_config.json
MenuEnvs ==
    { [system |-> "Linux", config_exists |-> TRUE],
      [system |-> "Windows", config_exists |-> FALSE] }

\* input(): the line read and the lines left, or the exception raised
ReadLine(in) ==
    IF in = <<>> THEN [status |-> "EOFError", line |-> <<>>, rest |-> <<>>]
    ELSE IF Head(in) = CtrlC
         THEN [status |-> "KeyboardInterrupt", line |-> <<>>, rest |-> Tail(in)]
    ELSE [status |-> "ok", line |-> Head(in), rest |-> Tail(in)]

\* get_choice: the stripped line; an interrupt or the end of input is caught
\* and ends the process with sys.exit(0)
GetChoice(in) ==
    LET r == ReadLine(in)
    IN  IF r.status = "ok"
        THEN [status |-> "ok", value |-> Strip(r.line), rest |-> r.rest]
        ELSE [status |-> "SystemExit", value |-> <<>>, rest |-> r.rest]

\* subprocess.run([sys.executable, 'get_waf_config.py', ...], shell=...)
Command(env, debug, profiles, regions, no_parallel) ==
    [script |-> "get_waf_config.py", debug |-> debug, p |-> profiles, r |-> regions,
     no_parallel |-> no_parallel, shell |-> (env.system = "Windows")]

DefaultRegion == <<"u", "s", "-", "e", "a", "s", "t", "-", "1">>

\* how a handler ends: its status, the lines it leaves unread, the commands it ran
Handled(status, rest, runs) == [status |-> status, rest |-> rest, runs |-> runs]

\* input("...") as the last statement before a handler returns
PressEnter(in) == Handled(ReadLine(in).status, ReadLine(in).rest, <<>>)

\* quick_scan
QuickScan(env, in) ==
    IF ~env.config_exists THEN PressEnter(in)
    ELSE Handled("ok", in, <<Command(env, FALSE, <<>>, <<>>, FALSE)>>)

\* quick_test
QuickTest(env, in) ==
    LET profile == ReadLine(in)
        region == ReadLine(profile.rest)
    IN  IF profile.status # "ok" THEN Handled(profile.status, profile.rest, <<>>)
        ELSE IF Strip(profile.line) = <<>> THEN PressEnter(profile.rest)
        ELSE IF region.status # "ok" THEN Handled(region.status, region.rest, <<>>)
        ELSE Handled("ok", region.rest,
                     <<Command(env, FALSE, <<Strip(profile.line)>>,
                               <<IF Strip(region.line) = <<>> THEN DefaultRegion
                                 ELSE Strip(region.line)>>, FALSE)>>)

\* custom_scan
CustomScan(env, in) ==
    LET profiles_input == ReadLine(in)
        regions_input == ReadLine(profiles_input.rest)
        parallel_input == ReadLine(regions_input.rest)
    IN  IF profiles_input.status # "ok"
        THEN Handled(profiles_input.status, profiles_input.rest, <<>>)
        ELSE IF Strip(profiles_input.line) = <<>> THEN PressEnter(profiles_input.rest)
        ELSE IF regions_input.status # "ok"
        THEN Handled(regions_input.status, regions_input.rest, <<>>)
        ELSE IF parallel_input.status # "ok"
        THEN Handled(parallel_input.status, parallel_input.rest, <<>>)
        ELSE Handled("ok", parallel_input.rest,
                     <<Command(env, FALSE, Split(profiles_input.line),
                               Split(regions_input.line),
                               Lower(Strip(parallel_input.line)) = <<"n">>)>>)

\* debug_mode
DebugMode(env, in) ==
    LET profiles_input == ReadLine(in)
    IN  IF profiles_input.status # "ok"
        THEN Handled(profiles_input.status, profiles_input.rest, <<>>)
        ELSE Handled("ok", profiles_input.rest,
                     <<Command(env, TRUE, Split(profiles_input.line), <<>>, FALSE)>>)

\* show_help
ShowHelp(env, in) == PressEnter(in)

\* the else branch of the loop: the "invalid choice" notice, then input("...")
InvalidChoice(env, in) == PressEnter(in)

(***************************************************************************)
(* InteractiveMenu.run_interactive_scan: the loop shows the menu and reads *)
(* a choice, then runs the branch of that choice.  trace is the sequence   *)
(* of the calls the loop has made, emitted the commands it has run.        *)
(***************************************************************************)
\* a variant of the elif chain in which '5' runs debug_mode
HandlerOfHelpMistaken(choice) ==
    CASE choice = <<"0">> -> "break"
      [] choice = <<"1">> -> "quick_scan"
      [] choice = <<"2">> -> "quick_test"
      [] choice = <<"3">> -> "custom_scan"
      [] choice \in {<<"4">>, <<"5">>} -> "debug_mode"
      [] OTHER -> "input"

\* the branch the if/elif chain takes for a choice: "input" stands for the else
\* branch, which calls no handler but input() itself
HandlerOf(choice) ==
    CASE choice = <<"0">> -> "break"
      [] choice = <<"1">> -> "quick_scan"
      [] choice = <<"2">> -> "quick_test"
      [] choice = <<"3">> -> "custom_scan"
      [] choice = <<"4">> -> "debug_mode"
      [] choice = <<"5">> -> "show_help"
      [] OTHER -> "input"

InitMenu ==
    /\ data = JsonList(<<>>)
    /\ scan_modes = EmptyDict
    /\ args \in MenuEnvs
    /\ pc = "menu"
    /\ trace = <<>>
    /\ emitted = <<>>
    /\ out = NoCall
    /\ aws = EmptyDict
    /\ stdin \in Sessions

\* self.show_menu(); choice = self.get_choice()
ShowMenuGetChoice ==
    /\ pc = "menu"
    /\ LET choice == GetChoice(stdin)
           call == Call("get_choice", <<>>, [status |-> choice.status, value |-> choice.value])
       IN  /\ trace' = trace \o <<Call("show_menu", <<>>, Ok(<<>>)), call>>
           /\ out' = call
           /\ stdin' = choice.rest
           /\ pc' = IF choice.status = "ok" THEN "chosen" ELSE "exited"
    /\ UNCHANGED <<data, scan_modes, args, emitted, aws>>

\* if choice == '0': ... break
ChooseExit ==
    /\ pc = "chosen"
    /\ HandlerOf(out.value) = "break"
    /\ pc' = "returned"
    /\ UNCHANGED <<data, scan_modes, args, trace, emitted, out, aws, stdin>>

\* the branch op of the chain: it is called, it reads its lines and runs its
\* command, and the loop goes round if it returns
Handle(op, handled) ==
    /\ pc = "chosen"
    /\ HandlerOf(out.value) = op
    /\ trace' = Append(trace, Call(op, <<>>, [status |-> handled.status, value |-> <<>>]))
    /\ out' = Call(op, <<>>, [status |-> handled.status, value |-> <<>>])
    /\ emitted' = emitted \o handled.runs
    /\ stdin' = handled.rest
    /\ pc' = IF handled.status = "ok" THEN "menu" ELSE "raised"
    /\ UNCHANGED <<data, scan_modes, args, aws>>

RunQuickScan == Handle("quick_scan", QuickScan(args, stdin))
RunQuickTest == Handle("quick_test", QuickTest(args, stdin))
RunCustomScan == Handle("custom_scan", CustomScan(args, stdin))
RunDebugMode == Handle("debug_mode", DebugMode(args, stdin))
RunShowHelp == Handle("show_help", ShowHelp(args, stdin))
RunInvalidChoice == Handle("input", InvalidChoice(args, stdin))

NextMenu ==
    \/ ShowMenuGetChoice
    \/ ChooseExit
    \/ RunQuickScan
    \/ RunQuickTest
    \/ RunCustomScan
    \/ RunDebugMode
    \/ RunShowHelp
    \/ RunInvalidChoice

\* the loop is sequential code: it goes on for as long as it has a step to take
SpecMenu == InitMenu /\ [][NextMenu]_vars /\ WF_vars(NextMenu)

(***************************************************************************)
(* What the properties below speak of: the records of a document by their  *)
(* place <<account, region, index>>, independently of any traversal.       *)
(***************************************************************************)
Places(items) ==
    UNION { UNION { { <<a, r, i>> : i \in 1..Len(Albs(Regions(items[a])[r])) } :
                    r \in 1..Len(Regions(items[a])) } :
            a \in 1..Len(items) }

RecordAt(items, p) == Albs(Regions(items[p[1]])[p[2]])[p[3]]

\* p comes before q in the document
Before(p, q) ==
    \/ p[1] < q[1]
    \/ p[1] = q[1] /\ p[2] < q[2]
    \/ p[1] = q[1] /\ p[2] = q[2] /\ p[3] < q[3]

\* the places in s are strictly increasing in document order
InDocumentOrder(s) == \A j \in 1..(Len(s) - 1) : Before(s[j], s[j + 1])

SeqRange(s) == { s[j] : j \in 1..Len(s) }

IsPrefix(s, t) == Len(s) <= Len(t) /\ s = SubSeq(t, 1, Len(s))

RECURSIVE SumOver(_, _)
SumOver(F(_), S) ==
    IF S = {} THEN 0
    ELSE LET x == CHOOSE y \in S : TRUE IN F(x) + SumOver(F, S \ {x})

\* some record of the document has no waf_association key
LacksWafAssociation(items) ==
    \E p \in Places(items) : "waf_association" \notin DOMAIN RecordAt(items, p)

\* the methods that read a record's WAF association and its region
WafReaders == {"list", "coverage", "no_waf", "by_region"}

\* every method that queries the document
QueryOps ==
    {"scan_info", "list", "coverage", "no_waf", "stats", "by_type", "by_region", "search", "csv"}

\* the last call was a query that got as far as reading the document
Queried ==
    /\ out.op \in QueryOps
    /\ out.op = "csv" => out.arg # ""

\* two characters that are the same letter, whatever their case
SameLetter(c, d) == \/ c = d
                    \/ {c, d} = {"a", "A"}
                    \/ {c, d} = {"b", "B"}

\* two strings that differ at most in the case of their letters
SameIgnoringCase(s, t) ==
    /\ Len(s) = Len(t)
    /\ \A j \in 1..Len(s) : SameLetter(s[j], t[j])

\* the name of a record, the empty string if it has none
NameAt(items, p) ==
    LET alb == RecordAt(items, p)
    IN  IF "basic_info" \in DOMAIN alb /\ "LoadBalancerName" \in DOMAIN alb.basic_info
        THEN alb.basic_info.LoadBalancerName
        ELSE <<>>

\* pattern occurs in name, letters compared without regard to case
OccursIgnoringCase(name, pattern) ==
    \E k \in 0..(Len(name) - Len(pattern)) :
        \A j \in 1..Len(pattern) : SameLetter(name[k + j], pattern[j])

(***************************************************************************)
(* C1.  A record without the waf_association key makes every method that   *)
(* processes it (list, coverage, find-without-WAF, by-region, export, and  *)
(* search when the record matches) end in a structural error.              *)
(***************************************************************************)
C1_MissingWafAssociationRaises ==
    LET items == Accounts(data)
    IN  /\ ( /\ out.op \in WafReaders \cup {"csv"}
             /\ Queried
             /\ LacksWafAssociation(items) )
            => out.status = "KeyError"
        /\ ( /\ out.op = "search"
             /\ \E p \in Places(items) :
                    /\ "waf_association" \notin DOMAIN RecordAt(items, p)
                    /\ OccursIgnoringCase(NameAt(items, p), out.arg) )
            => out.status = "KeyError"

(***************************************************************************)
(* C2.  When main() runs on a document in which some record has no         *)
(* waf_association key, no report section has been printed by the time the *)
(* run aborts.                                                             *)
(***************************************************************************)
C2_NoPartialReport ==
    (pc = "aborted" /\ LacksWafAssociation(Accounts(data))) => emitted = <<>>

(***************************************************************************)
(* C3.  On a list of account objects in which every record has a           *)
(* waf_association key, no query raises, whichever other keys are absent.  *)
(***************************************************************************)
C3_OptionalFieldsNeverRaise ==
    ( /\ data.kind = "list"
      /\ ~LacksWafAssociation(Accounts(data))
      /\ Queried )
    => out.status = "ok"

(***************************************************************************)
(* C4.  When the document is not a list of account objects, constructing   *)
(* the analyzer or the first query ends in an error, and main() never      *)
(* completes a report.                                                     *)
(***************************************************************************)
C4_NonListRejected ==
    data.kind # "list" =>
        /\ pc # "done"
        /\ trace # <<>> => (Len(trace) = 1 /\ pc = "aborted")

(***************************************************************************)
(* C5.  The advanced statistics are reported unavailable ("insufficient    *)
(* scan depth") if and only if no account of the document has scan_mode    *)
(* standard or full, accounts sharing or lacking an account_id included.   *)
(***************************************************************************)
C5_UnavailableIffNoAdvancedAccount ==
    LET items == Accounts(data)
    IN  out.op = "stats" =>
            ( out.value.available
              <=> \E a \in 1..Len(items) : ScanMode(items[a]) \in {"standard", "full"} )

\* the places of the records of accounts whose scan_mode is in modes
PlacesInModes(items, modes) ==
    { p \in Places(items) : ScanMode(items[p[1]]) \in modes }

\* the elements of the list under key of the records at the places P, as <<place, index>>
ChildrenOf(items, P, key) ==
    UNION { { <<p, j>> : j \in 1..Len(Get(RecordAt(items, p), key, <<>>)) } : p \in P }

ChildAt(items, c, key) == RecordAt(items, c[1])[key][c[2]]

\* the health entries of the target groups tgs, as <<target group, index>>
TargetsOf(items, tgs) ==
    UNION { { <<c, j>> :
              j \in 1..Len(Get(ChildAt(items, c, "target_groups"), "target_health", <<>>)) } :
            c \in tgs }

\* dist lists each key of the set keys once, with count(key) > 0 beside it, and nothing else
IsDistribution(dist, keys, count(_)) ==
    /\ { dist[j].key : j \in 1..Len(dist) } = keys
    /\ \A i, j \in 1..Len(dist) : dist[i].key = dist[j].key => i = j
    /\ \A j \in 1..Len(dist) : dist[j].count = count(dist[j].key)

(***************************************************************************)
(* C6.  When the advanced statistics are computed, the listener and        *)
(* target-group totals and their protocol distributions count exactly the  *)
(* records of the accounts whose scan_mode is standard or full, and the    *)
(* rule total, the target total and the health-state distribution exactly  *)
(* the records of the accounts whose scan_mode is full.                    *)
(***************************************************************************)
C6_AdvancedStatsCountByMode ==
    LET items == Accounts(data)
        advanced == PlacesInModes(items, {"standard", "full"})
        full == PlacesInModes(items, {"full"})
        ls == ChildrenOf(items, advanced, "listeners")
        tgs == ChildrenOf(items, advanced, "target_groups")
        targets == TargetsOf(items, ChildrenOf(items, full, "target_groups"))
        protocol(c, key) == Get(ChildAt(items, c, key), "Protocol", "Unknown")
        health(t) ==
            Get(Get(ChildAt(items, t[1], "target_groups").target_health[t[2]],
                    "TargetHealth", EmptyDict), "State", "Unknown")
        v == out.value
    IN  (out.op = "stats" /\ out.value.available) =>
            /\ v.total_listeners = Cardinality(ls)
            /\ v.total_target_groups = Cardinality(tgs)
            /\ IsDistribution(v.listener_protocols,
                              { protocol(c, "listeners") : c \in ls },
                              LAMBDA k : Cardinality({ c \in ls : protocol(c, "listeners") = k }))
            /\ IsDistribution(v.target_group_protocols,
                              { protocol(c, "target_groups") : c \in tgs },
                              LAMBDA k : Cardinality({ c \in tgs :
                                                       protocol(c, "target_groups") = k }))
            /\ v.total_rules =
                   SumOver(LAMBDA c : Len(Get(ChildAt(items, c, "listeners"), "Rules", <<>>)),
                           ChildrenOf(items, full, "listeners"))
            /\ v.total_targets = Cardinality(targets)
            /\ IsDistribution([j \in 1..Len(v.health_states) |->
                                 [key |-> v.health_states[j].state,
                                  count |-> v.health_states[j].count]],
                              { health(t) : t \in targets },
                              LAMBDA k : Cardinality({ t \in targets : health(t) = k }))

\* statistics computed over a document that mixes a quick-mode account holding
\* listeners and target groups with a full-mode account holding rules and targets
C6_Witness ==
    LET items == Accounts(data)
        holds(mode, key) ==
            \E p \in PlacesInModes(items, {mode}) : Get(RecordAt(items, p), key, <<>>) # <<>>
    IN  /\ out.op = "stats"
        /\ out.value.available
        /\ holds("quick", "listeners") /\ holds("quick", "target_groups")
        /\ holds("full", "listeners")
        /\ out.value.total_rules > 0
        /\ out.value.total_targets > 0
        /\ out.value.total_listeners > 0

\* scan-info, then the methods whose option is on the command line
SuppliedOps(a) ==
    <<"scan_info">>
    \o (IF a.list THEN <<"list">> ELSE <<>>)
    \o (IF a.waf_coverage THEN <<"coverage">> ELSE <<>>)
    \o (IF a.no_waf THEN <<"no_waf">> ELSE <<>>)
    \o (IF a.stats THEN <<"stats">> ELSE <<>>)
    \o (IF a.by_type THEN <<"by_type">> ELSE <<>>)
    \o (IF a.by_region THEN <<"by_region">> ELSE <<>>)
    \o (IF a.search.given THEN <<"search">> ELSE <<>>)
    \o (IF a.csv.given THEN <<"csv">> ELSE <<>>)

(***************************************************************************)
(* C7.  Whatever options are supplied, a run of main() calls scan-info     *)
(* first and then exactly the methods whose option was supplied, each      *)
(* once, an empty search pattern or export path counting as supplied.      *)
(***************************************************************************)
C7_RunsExactlySuppliedOps ==
    (pc = "done" /\ args # NoArgs) => trace = SuppliedOps(args)

\* the methods of a run without options
DefaultOps == <<"scan_info", "list", "coverage", "stats", "by_type", "by_region">>

(***************************************************************************)
(* C8.  A run of main() with no option calls scan-info, list, coverage,    *)
(* advanced-stats, by-type and by-region, each once and in that order, and *)
(* calls nothing else.                                                     *)
(***************************************************************************)
C8_DefaultRunOrder ==
    args = NoArgs =>
        /\ IsPrefix(trace, DefaultOps)
        /\ pc = "done" => trace = DefaultOps

\* a run with no option, on a document that holds load balancers, has returned
C8_Witness ==
    /\ args = NoArgs
    /\ pc = "done"
    /\ Places(Accounts(data)) # {}
    /\ trace = DefaultOps

\* the places of the records a search result lists, in the order it lists them
SearchPlaces(groups) ==
    Flatten([g \in 1..Len(groups) |-> [j \in 1..Len(groups[g].albs) |-> groups[g].albs[j].at]])

(***************************************************************************)
(* C9.  search(pattern) returns exactly the records whose name contains    *)
(* the pattern, letters compared without regard to case, grouped by        *)
(* account and region and in document order.  So the empty pattern returns *)
(* every record, a record without a name included, and two patterns that   *)
(* differ only in the case of their letters return the same result.        *)
(***************************************************************************)
C9_SearchIsCaseInsensitiveSubstring ==
    LET items == Accounts(data)
        groups == out.value.groups
        found == SearchPlaces(groups)
    IN  (out.op = "search" /\ out.status = "ok") =>
            /\ InDocumentOrder(found)
            /\ SeqRange(found) =
                   { p \in Places(items) : OccursIgnoringCase(NameAt(items, p), out.arg) }
            /\ out.arg = <<>> => Len(found) = Cardinality(Places(items))
            /\ \A g \in 1..Len(groups) :
                   /\ groups[g].albs # <<>>
                   /\ \A j \in 1..Len(groups[g].albs) :
                          LET at == groups[g].albs[j].at
                          IN  /\ groups[g].account_id = AccountId(items[at[1]])
                              /\ groups[g].region = Regions(items[at[1]])[at[2]].region
                              /\ at[1] = groups[g].albs[1].at[1]
                              /\ at[2] = groups[g].albs[1].at[2]
            /\ \A g \in 1..(Len(groups) - 1) :
                   groups[g].albs[1].at[1] # groups[g + 1].albs[1].at[1]
                   \/ groups[g].albs[1].at[2] # groups[g + 1].albs[1].at[2]
            /\ \A q \in Patterns :
                   SameIgnoringCase(q, out.arg) => Search(items, q).value = out.value

\* a pattern of mixed case found in names of either case, in two groups, while
\* another record of the document is not found
C9_Witness ==
    /\ out.op = "search"
    /\ out.status = "ok"
    /\ out.arg = <<"a", "B">>
    /\ Len(out.value.groups) >= 2
    /\ \E g \in 1..Len(out.value.groups) : out.value.groups[g].albs[1].name = <<"a", "b">>
    /\ \E g \in 1..Len(out.value.groups) :
           \E j \in 1..Len(out.value.groups[g].albs) :
               out.value.groups[g].albs[j].name = <<"A", "B">>
    /\ Len(SearchPlaces(out.value.groups)) < Cardinality(Places(Accounts(data)))

\* the index of the last entry of kind k before entry j, 0 if there is none
LastBefore(entries, j, k) ==
    LET S == { i \in 1..(j - 1) : entries[i].k = k }
    IN  IF S = {} THEN 0 ELSE CHOOSE i \in S : \A h \in S : h <= i

(***************************************************************************)
(* C10.  find_without_waf returns exactly the records whose has_waf is     *)
(* false, each once and under its own account and region; with the records *)
(* whose has_waf is true they make up every record of the document, none   *)
(* twice; an account or a region is listed only if it holds such a record. *)
(***************************************************************************)
C10_FindWithoutWafPartitions ==
    LET items == Accounts(data)
        entries == out.value.entries
        albAt == { j \in 1..Len(entries) : entries[j].k = "alb" }
        listed == { entries[j].at : j \in albAt }
        hasWaf(p) == RecordAt(items, p).waf_association.has_waf
        without == { p \in Places(items) : hasWaf(p) = FALSE }
        with == { p \in Places(items) : hasWaf(p) = TRUE }
    IN  (out.op = "no_waf" /\ out.status = "ok") =>
            /\ listed = without
            /\ \A i, j \in albAt : i < j => Before(entries[i].at, entries[j].at)
            /\ listed \cup with = Places(items)
            /\ listed \cap with = {}
            /\ \A j \in albAt :
                   LET r == LastBefore(entries, j, "region")
                       a == LastBefore(entries, j, "account")
                       at == entries[j].at
                   IN  /\ 0 < a /\ a < r
                       /\ entries[a].account_id = AccountId(items[at[1]])
                       /\ entries[a].profile = Profile(items[at[1]])
                       /\ entries[r].region = Regions(items[at[1]])[at[2]].region
            /\ Cardinality({ j \in 1..Len(entries) : entries[j].k = "account" })
                   = Cardinality({ p[1] : p \in without })
            /\ Cardinality({ j \in 1..Len(entries) : entries[j].k = "region" })
                   = Cardinality({ <<p[1], p[2]>> : p \in without })
            /\ out.value.found_any <=> without # {}

\* a result that lists some records while the document also holds an account
\* whose records all have a WAF, and a region without WAF-less records inside an
\* account that is listed
C10_Witness ==
    LET items == Accounts(data)
        without == { p \in Places(items) : ~RecordAt(items, p).waf_association.has_waf }
    IN  /\ out.op = "no_waf"
        /\ out.status = "ok"
        /\ without # {}
        /\ \E p \in Places(items) : p[1] \notin { q[1] : q \in without }
        /\ \E p \in Places(items) :
               /\ p[1] \in { q[1] : q \in without }
               /\ <<p[1], p[2]>> \notin { <<q[1], q[2]>> : q \in without }

(***************************************************************************)
(* C11.  export_csv writes exactly one row per load-balancer record of the *)
(* document, in document order (accounts, then the account's regions, then *)
(* the region's load balancers), and each row carries the account id, the  *)
(* profile and the region its record belongs to, and the record's name.    *)
(***************************************************************************)
C11_ExportOneRowPerRecord ==
    LET items == Accounts(data)
        rows == out.value
        places == [j \in 1..Len(rows) |-> rows[j].at]
    IN  (out.op = "csv" /\ out.status = "ok") =>
            /\ Len(rows) = Cardinality(Places(items))
            /\ SeqRange(places) = Places(items)
            /\ InDocumentOrder(places)
            /\ \A j \in 1..Len(rows) :
                   LET at == rows[j].at
                   IN  /\ rows[j].Account_ID = AccountId(items[at[1]])
                       /\ rows[j].Profile = Profile(items[at[1]])
                       /\ rows[j].Region = Regions(items[at[1]])[at[2]].region
                       /\ rows[j].ALB_Name = NameAt(items, at)

\* an export of two accounts with different profiles, one of them holding two
\* regions with records and a region with two records
C11_Witness ==
    LET items == Accounts(data)
        rows == out.value
    IN  /\ out.op = "csv"
        /\ out.status = "ok"
        /\ Len(rows) >= 4
        /\ \E i, j \in 1..Len(rows) : rows[i].Profile # rows[j].Profile
        /\ \E i, j \in 1..Len(rows) :
               rows[i].at[1] = rows[j].at[1] /\ rows[i].at[2] # rows[j].at[2]
        /\ \E j \in 1..Len(rows) : rows[j].at[3] = 2

\* the type under which by-type counts the record at place p
TypeCountedAt(items, p) ==
    LET alb == RecordAt(items, p)
    IN  IF "basic_info" \in DOMAIN alb /\ "FriendlyType" \in DOMAIN alb.basic_info
        THEN alb.basic_info.FriendlyType
        ELSE "Unknown"

\* the first place of the document whose record is counted under type
FirstOfType(items, type) ==
    CHOOSE p \in Places(items) :
        /\ TypeCountedAt(items, p) = type
        /\ \A q \in Places(items) : TypeCountedAt(items, q) = type => (q = p \/ Before(p, q))

(***************************************************************************)
(* C12.  analyze_by_type lists each type once, in non-increasing order of  *)
(* count, and types with equal counts in the order in which the traversal  *)
(* of the document first meets them.                                       *)
(***************************************************************************)
C12_ByTypeStableDescending ==
    LET items == Accounts(data)
        dist == out.value
    IN  out.op = "by_type" =>
            /\ out.status = "ok"
            /\ \A i, j \in 1..Len(dist) : dist[i].key = dist[j].key => i = j
            /\ \A j \in 1..Len(dist) :
                   /\ dist[j].count > 0
                   /\ dist[j].count =
                          Cardinality({ p \in Places(items) :
                                        TypeCountedAt(items, p) = dist[j].key })
            /\ \A i, j \in 1..Len(dist) :
                   i < j =>
                       /\ dist[i].count >= dist[j].count
                       /\ dist[i].count = dist[j].count =>
                              Before(FirstOfType(items, dist[i].key),
                                     FirstOfType(items, dist[j].key))

\* a distribution in which the type met first comes after a type with a greater
\* count, and is tied with a type met later
C12_Witness ==
    LET items == Accounts(data)
        dist == out.value
    IN  /\ out.op = "by_type"
        /\ Len(dist) >= 3
        /\ \E i, j \in 1..Len(dist) :
               /\ i < j
               /\ dist[i].count > dist[j].count
               /\ Before(FirstOfType(items, dist[j].key), FirstOfType(items, dist[i].key))
        /\ \E i, j \in 1..Len(dist) : i < j /\ dist[i].count = dist[j].count

\* the region scans of the document, as <<account, region>>
RegionScans(items) ==
    UNION { { <<a, r>> : r \in 1..Len(Regions(items[a])) } : a \in 1..Len(items) }

\* the places of the records scanned in the region code
PlacesInRegion(items, code) ==
    { p \in Places(items) : Regions(items[p[1]])[p[2]].region = code }

(***************************************************************************)
(* C13.  When analyze_by_region returns, it lists each region code of the  *)
(* document once, a code whose scans hold no load balancer included; the   *)
(* total and with_waf of a code count the records of every region scan     *)
(* with that code, in whichever account; totals never increase down the    *)
(* list.                                                                   *)
(***************************************************************************)
C13_ByRegionAggregates ==
    LET items == Accounts(data)
        dist == out.value
    IN  (out.op = "by_region" /\ out.status = "ok") =>
            /\ { dist[j].region : j \in 1..Len(dist) }
                   = { Regions(items[s[1]])[s[2]].region : s \in RegionScans(items) }
            /\ \A i, j \in 1..Len(dist) : dist[i].region = dist[j].region => i = j
            /\ \A j \in 1..Len(dist) :
                   /\ dist[j].total = Cardinality(PlacesInRegion(items, dist[j].region))
                   /\ dist[j].with_waf =
                          Cardinality({ p \in PlacesInRegion(items, dist[j].region) :
                                        RecordAt(items, p).waf_association.has_waf })
            /\ \A j \in 1..(Len(dist) - 1) : dist[j].total >= dist[j + 1].total

\* a region code scanned in two accounts, with load balancers in both, listed
\* before a code met earlier in the document
C13_Witness ==
    LET items == Accounts(data)
        dist == out.value
    IN  /\ out.op = "by_region"
        /\ out.status = "ok"
        /\ Len(dist) >= 2
        /\ \E p, q \in PlacesInRegion(items, dist[1].region) :
               /\ p[1] # q[1]
               /\ RecordAt(items, p).waf_association.has_waf
               /\ ~RecordAt(items, q).waf_association.has_waf
        /\ Regions(items[1])[1].region # dist[1].region
        /\ dist[1].total > dist[2].total

\* the places of the records of account a
PlacesOfAccount(items, a) == { p \in Places(items) : p[1] = a }

\* the places of the set P whose record is bound to a Web ACL
WithWaf(items, P) == { p \in P : RecordAt(items, p).waf_association.has_waf }

(***************************************************************************)
(* C14.  When analyze_waf_coverage returns, it reports one entry per       *)
(* account of the document, and the global total is the sum of the totals  *)
(* of these entries: the number of load balancers of the document.         *)
(***************************************************************************)
C14_GlobalTotalIsSumOfAccounts ==
    LET items == Accounts(data)
        v == out.value
    IN  (out.op = "coverage" /\ out.status = "ok") =>
            /\ Len(v.accounts) = Len(items)
            /\ \A a \in 1..Len(items) :
                   v.accounts[a].total = Cardinality(PlacesOfAccount(items, a))
            /\ v.global.total = SumOver(LAMBDA a : v.accounts[a].total, 1..Len(items))
            /\ v.global.total = Cardinality(Places(items))

\* a coverage report over two accounts that hold different numbers of load balancers
C14_Witness ==
    LET v == out.value
    IN  /\ out.op = "coverage"
        /\ out.status = "ok"
        /\ Len(v.accounts) = 2
        /\ v.accounts[1].total > v.accounts[2].total
        /\ v.accounts[2].total > 0

(***************************************************************************)
(* C15.  When analyze_waf_coverage returns, with_waf and without_waf are   *)
(* non-negative and add up to the total, in every account entry and in the *)
(* global aggregate; with_waf counts the records bound to a Web ACL.       *)
(***************************************************************************)
C15_WithPlusWithoutIsTotal ==
    LET items == Accounts(data)
        v == out.value
        balanced(s) == /\ s.with_waf >= 0
                       /\ s.without_waf >= 0
                       /\ s.with_waf + s.without_waf = s.total
    IN  (out.op = "coverage" /\ out.status = "ok") =>
            /\ \A a \in 1..Len(v.accounts) :
                   /\ balanced(v.accounts[a])
                   /\ v.accounts[a].with_waf =
                          Cardinality(WithWaf(items, PlacesOfAccount(items, a)))
            /\ balanced(v.global)
            /\ v.global.with_waf = Cardinality(WithWaf(items, Places(items)))

\* a coverage report in which an account holds load balancers with and without
\* WAF, and the global aggregate covers a second account
C15_Witness ==
    LET v == out.value
    IN  /\ out.op = "coverage"
        /\ out.status = "ok"
        /\ Len(v.accounts) = 2
        /\ v.accounts[1].with_waf > 0 /\ v.accounts[1].without_waf > 0
        /\ v.global.with_waf > v.accounts[1].with_waf
        /\ v.global.without_waf > v.accounts[1].without_waf

\* a coverage fraction lies between 0 and 100 and has a denominator
InPercentRange(c) == c.den > 0 /\ 0 <= c.num /\ c.num <= 100 * c.den

(***************************************************************************)
(* C16.  Every coverage computed by analyze_waf_coverage (per account and  *)
(* global) and by analyze_by_region lies between 0 and 100 inclusive, is   *)
(* with_waf / total * 100 when the total is positive and 0 when the total  *)
(* is 0, and no division by zero is performed.                             *)
(***************************************************************************)
C16_CoverageWithinZeroAndHundred ==
    LET v == out.value
        sound(s) == /\ InPercentRange(s.coverage)
                    /\ s.total = 0 => s.coverage.num = 0
                    /\ s.total > 0 =>
                           s.coverage.num * s.total = s.with_waf * 100 * s.coverage.den
    IN  /\ (out.op = "coverage" /\ out.status = "ok") =>
               /\ \A a \in 1..Len(v.accounts) : sound(v.accounts[a])
               /\ sound(v.global)
        /\ (out.op = "by_region" /\ out.status = "ok") =>
               \A j \in 1..Len(v) : sound(v[j])

\* a coverage report with an account that holds no load balancer, an account
\* whose coverage is strictly between 0 and 100, and a region scan that is empty
C16_Witness ==
    LET items == Accounts(data)
        v == out.value
    IN  /\ out.op = "coverage"
        /\ out.status = "ok"
        /\ \E a \in 1..Len(v.accounts) : v.accounts[a].total = 0
        /\ \E a \in 1..Len(v.accounts) :
               /\ 0 < v.accounts[a].coverage.num
               /\ v.accounts[a].coverage.num < 100 * v.accounts[a].coverage.den
        /\ \E s \in RegionScans(items) : Albs(Regions(items[s[1]])[s[2]]) = <<>>

(***************************************************************************)
(* C17.  The counts analyze_by_type lists add up to the number of load     *)
(* balancers of the document; the records that carry no FriendlyType, or   *)
(* no basic_info at all, are counted under 'Unknown'.                      *)
(***************************************************************************)
C17_ByTypeCountsSumToTotal ==
    LET items == Accounts(data)
        dist == out.value
        untyped == { p \in Places(items) :
                       \/ "basic_info" \notin DOMAIN RecordAt(items, p)
                       \/ "FriendlyType" \notin DOMAIN RecordAt(items, p).basic_info }
    IN  out.op = "by_type" =>
            /\ SumOver(LAMBDA j : dist[j].count, 1..Len(dist)) = Cardinality(Places(items))
            /\ \A j \in 1..Len(dist) :
                   dist[j].key = "Unknown" => dist[j].count >= Cardinality(untyped)
            /\ untyped # {} => \E j \in 1..Len(dist) : dist[j].key = "Unknown"

\* a distribution over two accounts in which a record without FriendlyType and a
\* record without basic_info are counted beside records of two other types
C17_Witness ==
    LET items == Accounts(data)
        dist == out.value
    IN  /\ out.op = "by_type"
        /\ Len(items) = 2
        /\ \E p \in Places(items) : "basic_info" \notin DOMAIN RecordAt(items, p)
        /\ \E p \in Places(items) :
               /\ "basic_info" \in DOMAIN RecordAt(items, p)
               /\ "FriendlyType" \notin DOMAIN RecordAt(items, p).basic_info
        /\ Len(dist) >= 3
        /\ \E j \in 1..Len(dist) : dist[j].key = "Unknown" /\ dist[j].count >= 2

CheckerSteps ==
    <<"verify_access", "find_web_acl", "list_associated_resources",
      "check_cloudfront_distributions">>

\* the identity request is answered with a non-empty account id
AccountAnswered ==
    /\ ~aws.identity.raises
    /\ "Account" \in DOMAIN aws.identity.response
    /\ aws.identity.response.Account # ""

\* the positions, in the answered list of Web ACLs, of a complete ACL of the
\* wanted name that no ACL of that name, and no ACL without a name, precedes
AclPositions ==
    IF aws.web_acls.raises \/ "WebACLs" \notin DOMAIN aws.web_acls.response THEN {}
    ELSE LET acls == aws.web_acls.response.WebACLs
         IN  { i \in 1..Len(acls) :
                 /\ {"Name", "Id", "ARN"} \subseteq DOMAIN acls[i]
                 /\ acls[i].Name = args.web_acl_name
                 /\ \A j \in 1..(i - 1) :
                        "Name" \in DOMAIN acls[j] /\ acls[j].Name # args.web_acl_name }

\* what holds of a run of ResourceChecker at every moment
CheckerOrder ==
    /\ IsPrefix(trace, CheckerSteps)
    /\ pc # "raised"
    /\ Len(trace) >= 2 => AccountAnswered
    /\ Len(trace) >= 3 => AclPositions # {}
    /\ out.op \in {"list_associated_resources", "check_cloudfront_distributions"} =>
           \E i \in AclPositions : out.arg = aws.web_acls.response.WebACLs[i].ARN
    /\ pc = "returned" =>
           \/ Len(trace) = 1 /\ ~AccountAnswered
           \/ Len(trace) = 2 /\ AclPositions = {}
    /\ pc = "completed" <=> trace = CheckerSteps
    /\ pc = "completed" <=> (emitted # <<>> /\ emitted[Len(emitted)] = "done")

(***************************************************************************)
(* C19.  ResourceChecker.run calls verify_access, find_web_acl,            *)
(* list_associated_resources and check_cloudfront_distributions in that    *)
(* order: find_web_acl only after verify_access returned an account, the   *)
(* last two only after find_web_acl returned an ACL, whose ARN they are    *)
(* given; and once an ACL is found, check_cloudfront_distributions is      *)
(* called and the run completes, whether or not the requests of            *)
(* list_associated_resources fail.                                         *)
(***************************************************************************)
C19_CheckerStepsInOrder ==
    /\ []CheckerOrder
    /\ (pc = "found") ~> (pc = "completed" /\ trace = CheckerSteps)

\* a run has completed although the first request of list_associated_resources
\* raised, and the request of check_cloudfront_distributions as well
C19_Witness ==
    /\ pc = "completed"
    /\ trace = CheckerSteps
    /\ aws.resources[1].raises
    /\ aws.distributions.raises
    /\ Cardinality(AclPositions) = 1
    /\ Len(aws.web_acls.response.WebACLs) = 3

\* the handler the menu promises for a choice; none for any other choice
PromisedHandler(choice) ==
    IF choice = <<"1">> THEN "quick_scan"
    ELSE IF choice = <<"2">> THEN "quick_test"
    ELSE IF choice = <<"3">> THEN "custom_scan"
    ELSE IF choice = <<"4">> THEN "debug_mode"
    ELSE IF choice = <<"5">> THEN "show_help"
    ELSE "none"

MenuHandlers == {"quick_scan", "quick_test", "custom_scan", "debug_mode", "show_help"}

\* the exceptions an interrupted input() raises
Interruptions == {"EOFError", "KeyboardInterrupt"}

\* what holds of the calls the menu loop has made, at every moment
MenuLoopOrder ==
    LET last == Len(trace)
        isChoice(i) == trace[i].op = "get_choice" /\ trace[i].status = "ok"
    IN  /\ pc \in {"menu", "chosen", "returned", "exited", "raised"}
        \* the loop returns only after the choice '0'; an interrupted get_choice
        \* exits the process; an interrupted prompt of a branch raises
        /\ pc = "returned" => (isChoice(last) /\ trace[last].value = <<"0">>)
        /\ pc = "exited" <=>
               (last > 0 /\ trace[last].op = "get_choice" /\ trace[last].status = "SystemExit")
        /\ pc = "raised" <=>
               (last > 0 /\ trace[last].op # "get_choice"
                         /\ trace[last].status \in Interruptions)
        /\ (last > 0 /\ isChoice(last) /\ trace[last].value = <<"0">>)
               => pc \in {"chosen", "returned"}
        /\ \A i \in 1..last :
               \* a choice is read right after the menu is shown, and only then
               /\ trace[i].op = "show_menu" <=> (i < last /\ trace[i + 1].op = "get_choice")
               /\ trace[i].op = "get_choice" => (i > 1 /\ trace[i - 1].op = "show_menu")
               \* a handler runs only as the handler of the choice just read
               /\ trace[i].op \in MenuHandlers =>
                      (i > 1 /\ isChoice(i - 1)
                             /\ PromisedHandler(trace[i - 1].value) = trace[i].op)
               /\ trace[i].op = "input" =>
                      (i > 1 /\ isChoice(i - 1)
                             /\ trace[i - 1].value # <<"0">>
                             /\ PromisedHandler(trace[i - 1].value) = "none")
               \* after a choice other than '0' its handler runs, once, or no
               \* handler if it has none; then the menu is shown again
               /\ (isChoice(i) /\ trace[i].value # <<"0">> /\ i < last) =>
                      /\ trace[i + 1].op =
                             (IF PromisedHandler(trace[i].value) = "none" THEN "input"
                              ELSE PromisedHandler(trace[i].value))
                      /\ i + 1 < last =>
                             (trace[i + 1].status = "ok" /\ trace[i + 2].op = "show_menu")
                      /\ (i + 1 = last /\ trace[i + 1].status = "ok") => pc = "menu"
               /\ (isChoice(i) /\ trace[i].value = <<"0">>) => i = last

(***************************************************************************)
(* C20.  run_interactive_scan returns only after get_choice has read the   *)
(* choice '0'; an interrupt or the end of input ends the process instead   *)
(* (sys.exit in get_choice, the exception of input() elsewhere).  After    *)
(* any other choice exactly the handler of that choice runs, once (1       *)
(* quick_scan, 2 quick_test, 3 custom_scan, 4 debug_mode, 5 show_help), no *)
(* handler for a choice that is none of these, and unless the input is     *)
(* interrupted the menu is then shown again.                               *)
(***************************************************************************)
C20_MenuLoopDispatch ==
    /\ []MenuLoopOrder
    /\ (pc = "chosen") ~> (pc \in {"menu", "returned", "raised"})
    /\ (pc = "menu") ~> (pc \in {"chosen", "exited"})

\* the loop has returned on the choice '0' after it ran the handler of an
\* earlier choice once, which ran its command, and showed the menu again
C20_Witness ==
    /\ pc = "returned"
    /\ Len(trace) = 5
    /\ trace[2].value = <<"4">>
    /\ trace[3].op = "debug_mode"
    /\ trace[3].status = "ok"
    /\ Len(emitted) = 1
    /\ trace[4].op = "show_menu"
    /\ trace[5].value = <<"0">>

\* the <<place, type>> pairs the last call reported: the type line of each
\* listed record, the Type column of each exported row
ReportedTypes ==
    IF out.status # "ok" THEN {}
    ELSE IF out.op = "list"
    THEN { <<out.value[j].at, out.value[j].type>> :
             j \in { i \in 1..Len(out.value) : out.value[i].k = "alb" } }
    ELSE IF out.op = "no_waf"
    THEN { <<out.value.entries[j].at, out.value.entries[j].type>> :
             j \in { i \in 1..Len(out.value.entries) : out.value.entries[i].k = "alb" } }
    ELSE IF out.op = "search"
    THEN UNION { { <<out.value.groups[g].albs[j].at, out.value.groups[g].albs[j].type>> :
                     j \in 1..Len(out.value.groups[g].albs) } :
                 g \in 1..Len(out.value.groups) }
    ELSE IF out.op = "csv"
    THEN { <<out.value[j].at, out.value[j].Type>> : j \in 1..Len(out.value) }
    ELSE {}

\* the count analyze_by_type gives for type on the loaded document, 0 if it
\* does not list the type
CountedUnder(type) ==
    LET dist == AnalyzeByType(Accounts(data)).value
    IN  SumOver(LAMBDA j : IF dist[j].key = type THEN dist[j].count ELSE 0, 1..Len(dist))

(***************************************************************************)
(* C21.  The type under which analyze_by_type counts a record is the type  *)
(* string that list_all_albs, find_without_waf, search_alb and export_csv  *)
(* report for that record, a record that carries Type but no FriendlyType  *)
(* included: each reported type is the record's key in the distribution,   *)
(* and analyze_by_type counts under it at least the records reported with  *)
(* it.                                                                     *)
(***************************************************************************)
C21_ByTypeAgreesWithReportedType ==
    LET items == Accounts(data)
    IN  \A e \in ReportedTypes :
            /\ e[2] = ByTypeKey(RecordAt(items, e[1]))
            /\ CountedUnder(e[2]) >= Cardinality({ f \in ReportedTypes : f[2] = e[2] })

=============================================================================
